---- MODULE Spec2Model ----
(***************************************************************************)
(* The two converters of the SVG <-> GeoJSON tool and the editing surface   *)
(* that runs them: convertSvgToGeoJson (src/src/converters/svgToGeojson.ts),*)
(* convertGeoJsonToSvg and the App component.                              *)
(*                                                                         *)
(* Conventions:                                                            *)
(*  - a nullable value (string | null, number | undefined, ...) is a set:  *)
(*    {} is null/undefined and {v} is the value v;                         *)
(*  - a string the code inspects character by character (the d attribute,  *)
(*    height, viewBox) is a sequence of one-character strings;             *)
(*  - numbers are exact decimals held as integers in units of              *)
(*    10^-FracDigits (binary floating-point error is not modelled);        *)
(*  - a point [x, y] is the tuple <<x, y>>.                                *)
(***************************************************************************)
EXTENDS Integers, Sequences, FiniteSets, TLC

VARIABLES
    \* convertSvgToGeoJson: one call
    svgText, options, pc, calls, cleaned, sanitized, svgHeight, paths,
    sampled, features, result, error,
    \* inferGeometry: one call
    inferArgs, transformedCoords, feature,
    \* reference height resolution: the root element and the height found
    rootEl, rootHeight,
    \* computeBoundingBox: one call
    bboxInput, bboxOut,
    \* convertGeoJsonToSvg: one call
    geojsonText, revOptions, revPc, renderer, revResult, revError,
    \* App: the component's state, the runConversion calls, the auto timer
    app, runs, timer

vars == <<svgText, options, pc, calls, cleaned, sanitized, svgHeight, paths,
          sampled, features, result, error,
          inferArgs, transformedCoords, feature, rootEl, rootHeight,
          bboxInput, bboxOut,
          geojsonText, revOptions, revPc, renderer, revResult, revError,
          app, runs, timer>>

convertVars == <<svgText, options, pc, calls, cleaned, sanitized, svgHeight,
                 paths, sampled, features, result, error>>
inferVars == <<inferArgs, transformedCoords, feature>>
heightVars == <<rootEl, rootHeight>>
bboxVars == <<bboxInput, bboxOut>>
reverseVars == <<geojsonText, revOptions, revPc, renderer, revResult, revError>>
appVars == <<app, runs, timer>>

-----------------------------------------------------------------------------
\* Bounds of the model.
FracDigits == 2
MaxCoords == 2
MaxD == 2
MaxAttrLen == 2
MaxParts == 5
MaxLen == 3

Unit == 10 ^ FracDigits

-----------------------------------------------------------------------------
\* Nullable values.
None == {}
Some(v) == {v}
Get(o) == CHOOSE v \in o : TRUE
\* a ?? b
Coalesce(a, b) == IF a # None THEN a ELSE b
\* truthiness of a nullable string: neither null/undefined nor ''
Truthy(o) == o # None /\ Get(o) # ""

\* All sequences over S of length lo..hi.
SeqsOf(S, lo, hi) == UNION {[1..n -> S] : n \in lo..hi}

-----------------------------------------------------------------------------
\* closeRing
closeRingNever(coords) == coords

closeRing(coords) ==
    IF Len(coords) = 0 THEN coords
    ELSE LET first == coords[1]
             last == coords[Len(coords)]
         IN IF first[1] = last[1] /\ first[2] = last[2]
            THEN coords
            ELSE Append(coords, first)

\* Math.round(x * factor) / factor with factor = 10^precision, on a value v
\* held in units of 10^-FracDigits. Math.round(t) is floor(t + 1/2).
roundValue(v, precision) ==
    IF precision >= FracDigits THEN v
    ELSE LET m == 10 ^ (FracDigits - precision)
         IN ((2 * v + m) \div (2 * m)) * m

\* roundCoords
roundCoords(coords, precision) ==
    IF precision = None THEN coords
    ELSE [i \in 1..Len(coords) |->
            <<roundValue(coords[i][1], Get(precision)),
              roundValue(coords[i][2], Get(precision))>>]

\* /z\s*$/i.test(pathElement.getAttribute('d') ?? '')
IsSpace(c) == c \in {" ", "\t", "\n"}

closedPathCaseSensitive(el) ==
    LET d == IF el.d = None THEN <<>> ELSE Get(el.d)
    IN \E i \in 1..Len(d) :
           /\ d[i] = "z"
           /\ \A j \in (i + 1)..Len(d) : IsSpace(d[j])

closedPath(el) ==
    LET d == IF el.d = None THEN <<>> ELSE Get(el.d)
    IN \E i \in 1..Len(d) :
           /\ d[i] \in {"z", "Z"}
           /\ \A j \in (i + 1)..Len(d) : IsSpace(d[j])

\* !!fill && fill !== 'none'
hasFillAnyValue(el) == Truthy(el.fill)

hasFill(el) == Truthy(el.fill) /\ Get(el.fill) # "none"

\* coords.map(([x, y]) => flipY && svgHeight != null ? [x, svgHeight - y] : [x, y])
flipIgnoringFlag(coords, flipY, height) ==
    [i \in 1..Len(coords) |->
        IF height # None
        THEN <<coords[i][1], Get(height) - coords[i][2]>>
        ELSE coords[i]]

flipCoords(coords, flipY, height) ==
    [i \in 1..Len(coords) |->
        IF flipY /\ height # None
        THEN <<coords[i][1], Get(height) - coords[i][2]>>
        ELSE coords[i]]

\* rounding applied before the flip instead of after it
roundThenFlip(coords, flipY, height, precision) ==
    flipCoords(roundCoords(coords, precision), flipY, height)

roundedCoords(coords, flipY, height, precision) ==
    roundCoords(flipCoords(coords, flipY, height), precision)

\* ...(value ? { key: value } : {})
Entry(key, o) == IF Truthy(o) THEN key :> Get(o) ELSE <<>>

\* getAttribute('inkscape:label') ?? getAttribute('data-name') ?? undefined
nameOfFirstNonEmpty(el) ==
    IF Truthy(el.inkscapeLabel) THEN el.inkscapeLabel ELSE el.dataName

nameOf(el) == Coalesce(el.inkscapeLabel, el.dataName)

propertiesOf(el) ==
    Entry("id", el.id)
        @@ Entry("name", nameOf(el))
        @@ Entry("fill", el.fill)
        @@ Entry("stroke", el.stroke)
        @@ Entry("strokeWidth", el.strokeWidth)

\* inferGeometry
inferGeometry(coords, el, flipY, height, precision) ==
    LET rounded == roundedCoords(coords, flipY, height, precision)
    IN IF closedPath(el) \/ hasFill(el)
       THEN [type |-> "Feature",
             geometry |-> [type |-> "Polygon",
                           coordinates |-> <<closeRing(rounded)>>],
             properties |-> propertiesOf(el)]
       ELSE [type |-> "Feature",
             geometry |-> [type |-> "LineString",
                           coordinates |-> rounded],
             properties |-> propertiesOf(el)]

-----------------------------------------------------------------------------
\* Inputs of inferGeometry.
NoAttrs == [id |-> None, fill |-> None, stroke |-> None, strokeWidth |-> None,
            inkscapeLabel |-> None, dataName |-> None, d |-> None]

Points == {<<0, 0>>, <<50, -250>>, <<0, 30>>}
DChars == {"M", "z", "Z", " "}
DValues == {None} \cup {Some(s) : s \in SeqsOf(DChars, 0, MaxD)}
FillValues == {None, Some(""), Some("none"), Some("red")}
Nullable(v) == {None, Some(""), Some(v)}
Heights == {None, Some(4 * Unit)}
Precisions == {None, Some(0), Some(1)}

\* geometry inputs vary, the other attributes are absent
GeometryArgs ==
    {[coords |-> c, el |-> [NoAttrs EXCEPT !.d = d, !.fill = f],
      flipY |-> fy, svgHeight |-> h, precision |-> p] :
        c \in SeqsOf(Points, 1, MaxCoords), d \in DValues, f \in FillValues,
        fy \in BOOLEAN, h \in Heights, p \in Precisions}

\* attributes vary, the geometry inputs are fixed
PropertyArgs ==
    {[coords |-> <<<<0, 0>>, <<50, -250>>>>,
      el |-> [id |-> i, fill |-> f, stroke |-> s, strokeWidth |-> w,
              inkscapeLabel |-> l, dataName |-> n, d |-> None],
      flipY |-> TRUE, svgHeight |-> Some(4 * Unit), precision |-> None] :
        i \in Nullable("a1"), f \in FillValues, s \in Nullable("blue"),
        w \in Nullable("2"), l \in Nullable("Lake"), n \in Nullable("Pond")}

ConvertIdle ==
    /\ svgText = <<>> /\ options = [samplePoints |-> None] /\ pc = "idle"
    /\ calls = <<>> /\ cleaned = None /\ sanitized = None /\ svgHeight = None
    /\ paths = <<>> /\ sampled = <<>> /\ features = <<>> /\ result = None
    /\ error = None

InferIdle ==
    /\ inferArgs = None /\ transformedCoords = None /\ feature = None

HeightIdle ==
    /\ rootEl = None /\ rootHeight = None

BBoxIdle ==
    /\ bboxInput = None /\ bboxOut = None

ReverseIdle ==
    /\ geojsonText = <<>> /\ revOptions = None /\ revPc = "idle"
    /\ renderer = None /\ revResult = None /\ revError = None

AppIdle ==
    /\ app = None /\ runs = <<>> /\ timer = None

OthersIdle == BBoxIdle /\ ReverseIdle /\ AppIdle

InitInfer ==
    /\ inferArgs \in {Some(a) : a \in GeometryArgs \cup PropertyArgs}
    /\ transformedCoords = None
    /\ feature = None
    /\ ConvertIdle
    /\ HeightIdle
    /\ OthersIdle

\* One call of inferGeometry(coords, pathElement, flipY, svgHeight, precision).
InferCall ==
    /\ inferArgs # None
    /\ feature = None
    /\ LET a == Get(inferArgs)
       IN /\ transformedCoords' = Some(flipCoords(a.coords, a.flipY, a.svgHeight))
          /\ feature' = Some(inferGeometry(a.coords, a.el, a.flipY,
                                           a.svgHeight, a.precision))
    /\ UNCHANGED <<inferArgs, convertVars, heightVars, bboxVars, reverseVars,
                   appVars>>

NextInfer == InferCall

SpecInfer == InitInfer /\ [][NextInfer]_vars

-----------------------------------------------------------------------------
\* Reference height of the root <svg> element.

Digits == {"0", "1", "2", "3", "4", "5", "6", "7", "8", "9"}
DigitValue(c) ==
    CASE c = "0" -> 0 [] c = "1" -> 1 [] c = "2" -> 2 [] c = "3" -> 3
      [] c = "4" -> 4 [] c = "5" -> 5 [] c = "6" -> 6 [] c = "7" -> 7
      [] c = "8" -> 8 [] c = "9" -> 9

\* the index of the first character of s at or after i that is not whitespace
RECURSIVE SkipSpace(_, _)
SkipSpace(s, i) ==
    IF i <= Len(s) /\ IsSpace(s[i]) THEN SkipSpace(s, i + 1) ELSE i

\* the value of the digits of s that start at i, {} when there is none
RECURSIVE ReadDigits(_, _, _)
ReadDigits(s, i, acc) ==
    IF i <= Len(s) /\ s[i] \in Digits
    THEN ReadDigits(s, i + 1,
                    Some(10 * (IF acc = None THEN 0 ELSE Get(acc))
                         + DigitValue(s[i])))
    ELSE acc

\* parseFloat on strings of digits, whitespace and letters: leading whitespace
\* is skipped, the longest numeric prefix is read, NaN ({}) when there is none
parseFloat(s) ==
    LET r == ReadDigits(s, SkipSpace(s, 1), None)
    IN IF r = None THEN None ELSE Some(Get(r) * Unit)

\* parseLength
parseLength(value) ==
    IF value = None \/ Get(value) = <<>> THEN None
    ELSE parseFloat(Get(value))

\* String.prototype.trim
Trim(s) ==
    LET keep == {i \in 1..Len(s) : ~IsSpace(s[i])}
    IN IF keep = {} THEN <<>>
       ELSE SubSeq(s, CHOOSE i \in keep : \A j \in keep : i <= j,
                      CHOOSE i \in keep : \A j \in keep : j <= i)

\* s.split(/\s+/)
RECURSIVE SplitRec(_, _, _, _)
SplitRec(s, i, word, parts) ==
    IF i > Len(s) THEN Append(parts, word)
    ELSE IF IsSpace(s[i])
         THEN IF i > 1 /\ IsSpace(s[i - 1])
              THEN SplitRec(s, i + 1, word, parts)
              ELSE SplitRec(s, i + 1, <<>>, Append(parts, word))
         ELSE SplitRec(s, i + 1, Append(word, s[i]), parts)

SplitSpaces(s) == SplitRec(s, 1, <<>>, <<>>)

\* the height read from the viewBox attribute
viewBoxHeightThird(viewBox) ==
    IF viewBox = None \/ Get(viewBox) = <<>> THEN None
    ELSE LET parts == SplitSpaces(Trim(Get(viewBox)))
         IN IF Len(parts) # 4 THEN None ELSE parseFloat(parts[3])

viewBoxHeight(viewBox) ==
    IF viewBox = None \/ Get(viewBox) = <<>> THEN None
    ELSE LET parts == SplitSpaces(Trim(Get(viewBox)))
         IN IF Len(parts) # 4 THEN None ELSE parseFloat(parts[4])

\* const svgHeight = parseLength(svg.getAttribute('height')) ?? (() => ...)()
svgHeightViewBoxFirst(svg) ==
    Coalesce(viewBoxHeight(svg.viewBox), parseLength(svg.height))

svgHeightOf(svg) ==
    Coalesce(parseLength(svg.height), viewBoxHeight(svg.viewBox))

\* Root elements: a height attribute and a viewBox attribute.
HeightChars == {"4", " ", "x"}
HeightAttrs == {None} \cup {Some(s) : s \in SeqsOf(HeightChars, 0, MaxAttrLen)}
Words == {<<"3">>, <<"7">>, <<"x">>}

\* words joined by sep
RECURSIVE Join(_, _)
Join(ws, sep) ==
    IF Len(ws) = 0 THEN <<>>
    ELSE IF Len(ws) = 1 THEN ws[1]
    ELSE ws[1] \o sep \o Join(Tail(ws), sep)

ViewBoxAttrs ==
    {None}
    \cup {Some(Join(ws, <<" ">>)) : ws \in SeqsOf(Words, 0, MaxParts)}
    \cup {Some(<<" ">> \o Join(ws, <<" ", " ">>) \o <<" ">>) :
             ws \in SeqsOf(Words, 1, MaxParts)}

RootEls == {[height |-> h, viewBox |-> v] : h \in HeightAttrs, v \in ViewBoxAttrs}

InitHeight ==
    /\ rootEl \in {Some(r) : r \in RootEls}
    /\ rootHeight = None
    /\ ConvertIdle
    /\ InferIdle
    /\ OthersIdle

\* The reference height is read from the root element.
ResolveHeight ==
    /\ rootEl # None
    /\ rootHeight = None
    /\ rootHeight' = Some(svgHeightOf(Get(rootEl)))
    /\ UNCHANGED <<rootEl, convertVars, inferVars, bboxVars, reverseVars,
                   appVars>>

NextHeight == ResolveHeight

SpecHeight == InitHeight /\ [][NextHeight]_vars

-----------------------------------------------------------------------------
\* convertSvgToGeoJson.
\*
\* Markup text is a sequence of tokens: "ws" (whitespace), "svg" (an <svg ...>
\* start tag), "pathA" / "pathB" (two <path .../> elements), and the start and
\* end tags of clipPath, mask and defs (in any letter case).

DEFAULT_SAMPLE_POINTS == 250

Tokens == {"ws", "svg", "pathA", "pathB", "clipPathOpen", "clipPathClose",
           "maskOpen", "maskClose", "defsOpen", "defsClose"}
PathTokens == {"pathA", "pathB"}

\* the attributes of the two path elements and of the <svg> element
PathEl(tok) ==
    IF tok = "pathA"
    THEN [NoAttrs EXCEPT !.id = Some("a"), !.fill = Some("red"),
                         !.d = Some(<<"M", "z">>)]
    ELSE [NoAttrs EXCEPT !.id = Some("b"), !.stroke = Some("blue"),
                         !.d = Some(<<"M">>)]
SvgEl == [height |-> None, viewBox |-> Some(<<"0", " ", "0", " ", "7", " ", "4">>)]

\* !svgText.trim()
IsEmptyOnly(text) == text = <<>>

IsBlank(text) == \A i \in 1..Len(text) : text[i] = "ws"

\* text.replace(/<open[\s\S]*?<\/close>/gi, ''): every stretch from a start tag
\* to the nearest end tag after it is removed, left to right
RECURSIVE RemovePairs(_, _, _)
RemovePairs(text, open, close) ==
    IF text = <<>> THEN <<>>
    ELSE LET ends == {j \in 2..Len(text) : text[j] = close}
         IN IF text[1] = open /\ ends # {}
            THEN LET j == CHOOSE e \in ends : \A f \in ends : e <= f
                 IN RemovePairs(SubSeq(text, j + 1, Len(text)), open, close)
            ELSE <<text[1]>> \o RemovePairs(Tail(text), open, close)

\* text.replace(/<defs[\s\S]*?<\/defs>/gi, (match) => match.replace(...).replace(...))
RECURSIVE ReplaceDefs(_)
ReplaceDefs(text) ==
    IF text = <<>> THEN <<>>
    ELSE LET ends == {j \in 2..Len(text) : text[j] = "defsClose"}
         IN IF text[1] = "defsOpen" /\ ends # {}
            THEN LET j == CHOOSE e \in ends : \A f \in ends : e <= f
                     match == SubSeq(text, 1, j)
                 IN RemovePairs(RemovePairs(match, "clipPathOpen", "clipPathClose"),
                                "maskOpen", "maskClose")
                    \o ReplaceDefs(SubSeq(text, j + 1, Len(text)))
            ELSE <<text[1]>> \o ReplaceDefs(Tail(text))

\* stripUnsupported
stripUnsupported(text) ==
    ReplaceDefs(RemovePairs(RemovePairs(text, "clipPathOpen", "clipPathClose"),
                            "maskOpen", "maskClose"))

\* if (cleaned !== svgText): the retry is made only on a changed text
retryAlways(text, stripped) == TRUE

needsRetry(text, stripped) == stripped # text

\* container.querySelector('svg')
hasSvg(text) == \E i \in 1..Len(text) : text[i] = "svg"

\* Array.from(container.querySelectorAll('path'))
IsPathToken(tok) == tok \in PathTokens
pathsOf(text) == SelectSeq(text, IsPathToken)

\* the body of paths.forEach: an empty sampled sequence adds no feature
pushFeatureAlways(fs, coords, el, flipY, height, precision) ==
    Append(fs, inferGeometry(coords, el, flipY, height, precision))

pushFeature(fs, coords, el, flipY, height, precision) ==
    IF Len(coords) = 0 THEN fs
    ELSE Append(fs, inferGeometry(coords, el, flipY, height, precision))

\* the destructured options with their defaults
samplePointsOf(opts) ==
    IF opts.samplePoints = None THEN DEFAULT_SAMPLE_POINTS
    ELSE Get(opts.samplePoints)
flipYOf(opts) == IF opts.flipY = None THEN TRUE ELSE Get(opts.flipY)

ErrEmpty == "SVG input is empty."
ErrNoSvg == "Provided input does not contain a valid <svg> element."
ErrNoPath == "No <path> elements were found in the SVG."

\* Inputs: the text, the options, what the sanitizer (pathologize) returns
\* when it succeeds and what the sampler (pathToCoords) returns for a path.
Texts == SeqsOf(Tokens, 0, MaxLen)
OptionSets ==
    {[samplePoints |-> None, flipY |-> None, precision |-> None],
     [samplePoints |-> Some(10), flipY |-> Some(FALSE), precision |-> Some(0)]}
SanitizerOutputs ==
    {<<"svg", "pathB", "pathA">>, <<"svg">>, <<"pathA">>}
SamplerOutputs == {<<>>, <<<<0, 0>>, <<50, -250>>>>}

InitConvert ==
    /\ svgText \in Texts
    /\ options \in OptionSets
    /\ pc = "start"
    /\ calls = <<>>
    /\ cleaned = None
    /\ sanitized = None
    /\ svgHeight = None
    /\ paths = <<>>
    /\ sampled = <<>>
    /\ features = <<>>
    /\ result = None
    /\ error = None
    /\ InferIdle
    /\ HeightIdle
    /\ OthersIdle

Pending(text) == [arg |-> text, state |-> "pending", out |-> <<>>]

\* Entry: the empty-input check, then the first pathologize(svgText) is awaited.
Begin ==
    /\ pc = "start"
    /\ IF IsBlank(svgText)
       THEN /\ pc' = "failed"
            /\ error' = Some(ErrEmpty)
            /\ UNCHANGED calls
       ELSE /\ pc' = "await1"
            /\ calls' = <<Pending(svgText)>>
            /\ UNCHANGED error
    /\ UNCHANGED <<svgText, options, cleaned, sanitized, svgHeight, paths,
                   sampled, features, result, inferVars, heightVars,
                   bboxVars, reverseVars, appVars>>

\* await pathologize(svgText) resolves with the text out.
FirstResolved ==
    /\ pc = "await1"
    /\ \E out \in SanitizerOutputs :
          /\ calls' = [calls EXCEPT ![1].state = "resolved", ![1].out = out]
          /\ sanitized' = Some(out)
    /\ pc' = "parse"
    /\ UNCHANGED <<svgText, options, cleaned, svgHeight, paths, sampled,
                   features, result, error, inferVars, heightVars,
                   bboxVars, reverseVars, appVars>>

\* await pathologize(svgText) rejects: the catch block.
FirstRejected ==
    /\ pc = "await1"
    /\ LET stripped == stripUnsupported(svgText)
       IN /\ cleaned' = Some(stripped)
          /\ IF needsRetry(svgText, stripped)
             THEN /\ calls' = Append([calls EXCEPT ![1].state = "rejected"],
                                     Pending(stripped))
                  /\ pc' = "await2"
                  /\ UNCHANGED sanitized
             ELSE /\ calls' = [calls EXCEPT ![1].state = "rejected"]
                  /\ sanitized' = Some(svgText)
                  /\ pc' = "parse"
    /\ UNCHANGED <<svgText, options, svgHeight, paths, sampled, features,
                   result, error, inferVars, heightVars,
                   bboxVars, reverseVars, appVars>>

\* await pathologize(cleaned) resolves with the text out.
RetryResolved ==
    /\ pc = "await2"
    /\ \E out \in SanitizerOutputs :
          /\ calls' = [calls EXCEPT ![2].state = "resolved", ![2].out = out]
          /\ sanitized' = Some(out)
    /\ pc' = "parse"
    /\ UNCHANGED <<svgText, options, cleaned, svgHeight, paths, sampled,
                   features, result, error, inferVars, heightVars,
                   bboxVars, reverseVars, appVars>>

\* await pathologize(cleaned) rejects: sanitized = cleaned.
RetryRejected ==
    /\ pc = "await2"
    /\ calls' = [calls EXCEPT ![2].state = "rejected"]
    /\ sanitized' = cleaned
    /\ pc' = "parse"
    /\ UNCHANGED <<svgText, options, cleaned, svgHeight, paths, sampled,
                   features, result, error, inferVars, heightVars,
                   bboxVars, reverseVars, appVars>>

\* Element discovery: the <svg> element, the reference height, the paths.
Discover ==
    /\ pc = "parse"
    /\ LET text == Get(sanitized)
       IN IF ~hasSvg(text)
          THEN /\ pc' = "failed"
               /\ error' = Some(ErrNoSvg)
               /\ UNCHANGED <<svgHeight, paths>>
          ELSE /\ svgHeight' = svgHeightOf(SvgEl)
               /\ paths' = pathsOf(text)
               /\ IF Len(pathsOf(text)) = 0
                  THEN pc' = "failed" /\ error' = Some(ErrNoPath)
                  ELSE pc' = "sample" /\ UNCHANGED error
    /\ UNCHANGED <<svgText, options, calls, cleaned, sanitized, sampled,
                   features, result, inferVars, heightVars,
                   bboxVars, reverseVars, appVars>>

\* One turn of paths.forEach: pathToCoords, then inferGeometry unless empty.
ProcessPath ==
    /\ pc = "sample"
    /\ Len(sampled) < Len(paths)
    /\ \E coords \in SamplerOutputs :
          /\ sampled' = Append(sampled, coords)
          /\ features' = pushFeature(features, coords,
                                     PathEl(paths[Len(sampled) + 1]),
                                     flipYOf(options), svgHeight,
                                     options.precision)
    /\ UNCHANGED <<svgText, options, pc, calls, cleaned, sanitized, svgHeight,
                   paths, result, error, inferVars, heightVars,
                   bboxVars, reverseVars, appVars>>

\* The return statement.
Return ==
    /\ pc = "sample"
    /\ Len(sampled) = Len(paths)
    /\ result' = Some([collection |-> [type |-> "FeatureCollection",
                                       features |-> features],
                       metadata |-> [featureCount |-> Len(features),
                                     pathCount |-> Len(paths),
                                     samplePoints |-> samplePointsOf(options)]])
    /\ pc' = "done"
    /\ UNCHANGED <<svgText, options, calls, cleaned, sanitized, svgHeight,
                   paths, sampled, features, error, inferVars, heightVars,
                   bboxVars, reverseVars, appVars>>

Next ==
    \/ Begin
    \/ FirstResolved
    \/ FirstRejected
    \/ RetryResolved
    \/ RetryRejected
    \/ Discover
    \/ ProcessPath
    \/ Return

Init == InitConvert

Spec == Init /\ [][Next]_vars

-----------------------------------------------------------------------------
\* computeBoundingBox.
\*
\* A position is a sequence of numbers (<<x, y>>; <<>> is the empty array). A
\* geometry is [type, coordinates] or [type, geometries]; a feature is
\* [type, geometry] with a nullable geometry; a feature collection is
\* [type, features]. A number that is undefined is {}.

MaxGeoms == 2

\* the concatenation of a sequence of sequences
RECURSIVE Flat(_)
Flat(ss) == IF Len(ss) = 0 THEN <<>> ELSE ss[1] \o Flat(Tail(ss))

\* flattenCoords; FlattenEach is geometry.geometries.forEach(...)
RECURSIVE flattenCoords(_, _)
RECURSIVE FlattenEach(_, _)
flattenCoords(geometry, collection) ==
    CASE geometry.type = "Point" -> Append(collection, geometry.coordinates)
      [] geometry.type \in {"MultiPoint", "LineString"} ->
            collection \o geometry.coordinates
      [] geometry.type \in {"MultiLineString", "Polygon"} ->
            collection \o Flat(geometry.coordinates)
      [] geometry.type = "MultiPolygon" ->
            collection \o Flat(Flat(geometry.coordinates))
      [] geometry.type = "GeometryCollection" ->
            FlattenEach(geometry.geometries, collection)
      [] OTHER -> collection

FlattenEach(geoms, collection) ==
    IF Len(geoms) = 0 THEN collection
    ELSE FlattenEach(Tail(geoms), flattenCoords(geoms[1], collection))

\* collect, applied to each feature in turn
RECURSIVE CollectEach(_, _)
CollectEach(fs, coords) ==
    IF Len(fs) = 0 THEN coords
    ELSE CollectEach(Tail(fs),
                     IF fs[1].geometry = None THEN coords
                     ELSE flattenCoords(Get(fs[1].geometry), coords))

\* the coords array once the input is collected
collectedCoords(geojson) ==
    IF geojson.type = "FeatureCollection"
    THEN CollectEach(geojson.features, <<>>)
    ELSE IF geojson.type = "Feature"
    THEN CollectEach(<<geojson>>, <<>>)
    ELSE flattenCoords(geojson, <<>>)

\* coord[k], undefined past the end of the array
At(coord, k) == IF k <= Len(coord) THEN Some(coord[k]) ELSE None
\* a < b on numbers that may be undefined: false when either is
Less(a, b) == a # None /\ b # None /\ Get(a) < Get(b)

\* coords.forEach(([x, y]) => { if (x < minX) minX = x; ... })
RECURSIVE ReduceBox(_, _)
ReduceBox(coords, box) ==
    IF Len(coords) = 0 THEN box
    ELSE LET x == At(coords[1], 1)
             y == At(coords[1], 2)
         IN ReduceBox(Tail(coords),
                      [minX |-> IF Less(x, box.minX) THEN x ELSE box.minX,
                       minY |-> IF Less(y, box.minY) THEN y ELSE box.minY,
                       maxX |-> IF Less(box.maxX, x) THEN x ELSE box.maxX,
                       maxY |-> IF Less(box.maxY, y) THEN y ELSE box.maxY])

\* computeBoundingBox: {} is null
computeBoundingBox(geojson) ==
    LET coords == collectedCoords(geojson)
    IN IF Len(coords) = 0 THEN None
       ELSE Some(ReduceBox(coords,
                           [minX |-> At(coords[1], 1), minY |-> At(coords[1], 2),
                            maxX |-> At(coords[1], 1), maxY |-> At(coords[1], 2)]))

\* Inputs of computeBoundingBox.
Geom(t, c) == [type |-> t, coordinates |-> c]
Collection(gs) == [type |-> "GeometryCollection", geometries |-> gs]
FeatureOf(g) == [type |-> "Feature", geometry |-> g]
FeatureCollectionOf(fs) == [type |-> "FeatureCollection", features |-> fs]

SimpleGeometries ==
    {Geom("Point", <<3, 4>>),
     Geom("Point", <<>>),
     Geom("MultiPoint", <<>>),
     Geom("MultiPoint", <<<<-1, 7>>, <<5, 0>>>>),
     Geom("LineString", <<>>),
     Geom("LineString", <<<<2, 2>>, <<6, -3>>>>),
     Geom("MultiLineString", <<>>),
     Geom("MultiLineString", <<<<<<1, 1>>, <<2, 2>>>>, <<<<-4, 9>>>>>>),
     Geom("Polygon", <<<<>>>>),
     Geom("Polygon", <<<<<<0, 0>>, <<4, 0>>, <<0, 0>>>>, <<<<1, -6>>, <<8, 1>>>>>>),
     Geom("MultiPolygon", <<>>),
     Geom("MultiPolygon", <<<<<<<<0, 0>>, <<1, 1>>>>>>,
                            <<<<<<2, 2>>>>, <<<<-7, 10>>, <<9, -8>>>>>>>>),
     Geom("Circle", <<3, 4>>)}

Collections ==
    {Collection(gs) : gs \in SeqsOf(SimpleGeometries, 0, MaxGeoms)}
    \cup {Collection(<<Collection(<<>>)>>),
          Collection(<<Geom("Point", <<3, 4>>),
                       Collection(<<Collection(<<Geom("Point", <<-2, 11>>)>>)>>)>>)}

FeatureGeometries ==
    {None} \cup {Some(g) : g \in SimpleGeometries}
    \cup {Some(Collection(<<Geom("Point", <<3, 4>>),
                            Collection(<<Geom("LineString", <<<<12, -5>>>>)>>)>>))}
Features == {FeatureOf(g) : g \in FeatureGeometries}
FeatureCollections ==
    {FeatureCollectionOf(fs) : fs \in SeqsOf(Features, 0, MaxGeoms)}

GeoJsons == SimpleGeometries \cup Collections \cup Features \cup FeatureCollections

ForwardIdle == ConvertIdle /\ InferIdle /\ HeightIdle

InitBBox ==
    /\ bboxInput \in {Some(g) : g \in GeoJsons}
    /\ bboxOut = None
    /\ ForwardIdle
    /\ ReverseIdle
    /\ AppIdle

\* One call of computeBoundingBox(geojson).
ComputeBBox ==
    /\ bboxInput # None
    /\ bboxOut = None
    /\ bboxOut' = Some(computeBoundingBox(Get(bboxInput)))
    /\ UNCHANGED <<bboxInput, convertVars, inferVars, heightVars, reverseVars,
                   appVars>>

NextBBox == ComputeBBox

SpecBBox == InitBBox /\ [][NextBBox]_vars

-----------------------------------------------------------------------------
\* convertGeoJsonToSvg.
\*
\* The input text is a sequence of tokens: "ws" (whitespace), "junk" (text
\* that is no JSON, such as a lone brace) and document tokens, each the
\* complete JSON text of one GeoJSON value. Markup is a string.

MaxJsonLen == 2
MaxFragments == 2

DocTokens == {"emptyFC", "pointFeature", "twoLines"}
JsonTokens == {"ws", "junk"} \cup DocTokens

\* the value a document token is the JSON text of
DocOf(tok) ==
    CASE tok = "emptyFC" -> FeatureCollectionOf(<<>>)
      [] tok = "pointFeature" -> FeatureOf(Some(Geom("Point", <<3, 4>>)))
      [] tok = "twoLines" ->
            FeatureCollectionOf(
                <<FeatureOf(Some(Geom("LineString", <<<<2, 2>>, <<6, -3>>>>))),
                  FeatureOf(Some(Geom("LineString", <<<<-4, 9>>, <<1, 1>>>>)))>>)

\* !geojsonText.trim()
IsBlankJson(text) == \A i \in 1..Len(text) : text[i] = "ws"

\* JSON.parse: whitespace around one value; {} when it throws a SyntaxError
jsonParseLenient(text) ==
    LET rest == SelectSeq(text, LAMBDA t : t # "ws")
    IN IF Len(rest) >= 1 /\ rest[1] \in DocTokens
       THEN Some(DocOf(rest[1])) ELSE None

jsonParse(text) ==
    LET rest == SelectSeq(text, LAMBDA t : t # "ws")
    IN IF Len(rest) = 1 /\ rest[1] \in DocTokens
       THEN Some(DocOf(rest[1])) ELSE None

\* `${n}` for an integer n
Num(n) == ToString(n)

\* elements.join('')
RECURSIVE JoinAll(_)
JoinAll(elements) ==
    IF Len(elements) = 0 THEN "" ELSE elements[1] \o JoinAll(Tail(elements))

\* buildSvgWrapper
buildSvgWrapperCorners(elements, width, height, extent) ==
    LET viewBox ==
            IF extent # None
            THEN Num(Get(extent).left) \o " " \o Num(Get(extent).bottom) \o " "
                 \o Num(Get(extent).right) \o " " \o Num(Get(extent).top)
            ELSE "0 0 " \o Num(width) \o " " \o Num(height)
    IN "<svg xmlns=\"http://www.w3.org/2000/svg\" width=\"" \o Num(width)
       \o "\" height=\"" \o Num(height) \o "\" viewBox=\"" \o viewBox \o "\">"
       \o JoinAll(elements) \o "</svg>"

buildSvgWrapper(elements, width, height, extent) ==
    LET viewBox ==
            IF extent # None
            THEN Num(Get(extent).left) \o " " \o Num(Get(extent).bottom) \o " "
                 \o Num(Get(extent).right - Get(extent).left) \o " "
                 \o Num(Get(extent).top - Get(extent).bottom)
            ELSE "0 0 " \o Num(width) \o " " \o Num(height)
    IN "<svg xmlns=\"http://www.w3.org/2000/svg\" width=\"" \o Num(width)
       \o "\" height=\"" \o Num(height) \o "\" viewBox=\"" \o viewBox \o "\">"
       \o JoinAll(elements) \o "</svg>"

\* new GeoJSON2SVG({...}): the configuration the renderer is built with
rendererConfig(opts) ==
    [viewportSize |-> [width |-> opts.viewportWidth, height |-> opts.viewportHeight],
     mapExtent |-> opts.mapExtent,
     mapExtentFromGeojson |-> opts.mapExtentFromGeojson,
     precision |-> opts.precision,
     fitTo |-> opts.fitTo,
     pointAsCircle |-> TRUE,
     r |-> opts.pointRadius]

\* the metadata of the result
convertMetadataExtentBox(svgElements, parsed, opts) ==
    [elementCount |-> Len(svgElements),
     bbox |-> IF opts.mapExtent # None
              THEN Some([minX |-> Some(Get(opts.mapExtent).left),
                         minY |-> Some(Get(opts.mapExtent).bottom),
                         maxX |-> Some(Get(opts.mapExtent).right),
                         maxY |-> Some(Get(opts.mapExtent).top)])
              ELSE computeBoundingBox(parsed)]

convertMetadata(svgElements, parsed, opts) ==
    [elementCount |-> Len(svgElements),
     bbox |-> computeBoundingBox(parsed)]

\* converter.convert(parsed) of the geojson2svg library: some ordered list of
\* markup fragments, possibly none
Fragments == {"<path d=\"M2,2 6,-3\"/>", "<circle cx=\"3\" cy=\"4\" r=\"2\"/>"}
RendererOutputs(parsed) == SeqsOf(Fragments, 0, MaxFragments)

ErrGeoEmpty == "GeoJSON input is empty."
ErrGeoInvalid == "GeoJSON input is not valid JSON."
ErrRenderer == "error thrown by GeoJSON2SVG"

\* Inputs of convertGeoJsonToSvg.
JsonTexts == SeqsOf(JsonTokens, 0, MaxJsonLen)
Extents ==
    {None,
     Some([left |-> -180, bottom |-> -90, right |-> 180, top |-> 90]),
     Some([left |-> 10, bottom |-> 5, right |-> 30, top |-> 45])}
RenderSettings ==
    {[precision |-> None, fitTo |-> None, pointRadius |-> None],
     [precision |-> Some(2), fitTo |-> Some("width"), pointRadius |-> Some(2)]}
GeoJsonToSvgOptions ==
    {[viewportWidth |-> v[1], viewportHeight |-> v[2], mapExtent |-> e,
      mapExtentFromGeojson |-> f, precision |-> r.precision, fitTo |-> r.fitTo,
      pointRadius |-> r.pointRadius] :
        v \in {<<640, 480>>, <<100, 50>>}, e \in Extents,
        f \in {None, Some(TRUE), Some(FALSE)}, r \in RenderSettings}

InitReverse ==
    /\ geojsonText \in JsonTexts
    /\ revOptions \in {Some(o) : o \in GeoJsonToSvgOptions}
    /\ revPc = "start"
    /\ renderer = None
    /\ revResult = None
    /\ revError = None
    /\ ForwardIdle
    /\ BBoxIdle
    /\ AppIdle

\* The call throws on an empty text or on text that is no JSON.
RejectGeoJson ==
    /\ revPc = "start"
    /\ \/ /\ IsBlankJson(geojsonText)
          /\ revError' = Some(ErrGeoEmpty)
       \/ /\ ~IsBlankJson(geojsonText)
          /\ jsonParse(geojsonText) = None
          /\ revError' = Some(ErrGeoInvalid)
    /\ revPc' = "failed"
    /\ UNCHANGED <<geojsonText, revOptions, renderer, revResult, convertVars,
                   inferVars, heightVars, bboxVars, appVars>>

\* The text parses: the renderer is built and run, the result is returned.
RenderGeoJson ==
    /\ revPc = "start"
    /\ ~IsBlankJson(geojsonText)
    /\ jsonParse(geojsonText) # None
    /\ LET parsed == Get(jsonParse(geojsonText))
           opts == Get(revOptions)
       IN \E svgElements \in RendererOutputs(parsed) :
             /\ renderer' = Some([config |-> rendererConfig(opts),
                                  input |-> parsed,
                                  fragments |-> svgElements])
             /\ revResult' =
                   Some([svg |-> buildSvgWrapper(svgElements, opts.viewportWidth,
                                                 opts.viewportHeight, opts.mapExtent),
                         metadata |-> convertMetadata(svgElements, parsed, opts)])
    /\ revPc' = "done"
    /\ UNCHANGED <<geojsonText, revOptions, revError, convertVars, inferVars,
                   heightVars, bboxVars, appVars>>

\* The text parses and the renderer, once built, throws from convert.
RendererThrows ==
    /\ revPc = "start"
    /\ ~IsBlankJson(geojsonText)
    /\ jsonParse(geojsonText) # None
    /\ renderer' = Some([config |-> rendererConfig(Get(revOptions)),
                         input |-> Get(jsonParse(geojsonText)),
                         fragments |-> <<>>])
    /\ revError' = Some(ErrRenderer)
    /\ revPc' = "failed"
    /\ UNCHANGED <<geojsonText, revOptions, revResult, convertVars, inferVars,
                   heightVars, bboxVars, appVars>>

NextReverse ==
    \/ RejectGeoJson
    \/ RenderGeoJson
    \/ RendererThrows

SpecReverse == InitReverse /\ [][NextReverse]_vars

-----------------------------------------------------------------------------
\* App in mode 'svg-to-geojson': runConversion, the auto-convert effect and
\* the handlers that start a conversion.
\*
\* app holds the component's state, timer the input captured by the pending
\* auto-convert timeout ({} when none is pending), and runs the calls of
\* runConversion in the order they started, each with the input its closure
\* captured and how far it got. Texts are named, not spelled out.

MaxRuns == 3

SvgInputs == {"", "svgA", "svgB", "noSvg"}

\* !currentInput.trim()
IsBlankInput(input) == input = ""

\* the text for which convertSvgToGeoJson throws
Rejected(input) == input = "noSvg"

\* JSON.stringify(result.collection, null, 2), result.collection and
\* formatSvgMeta(result.metadata) for the conversion of an input
OutputOf(input) == "geojson of " \o input
PreviewOf(input) == Some("collection of " \o input)
MetaOf(input) == Some("metadata of " \o input)

StatusConverting == "converting"
StatusGenerated == "GeoJSON generated"

\* runConversion up to its await (or to its return on a blank input)
startedApp(a, input) ==
    IF IsBlankInput(input)
    THEN [a EXCEPT !.error = None, !.status = None,
                   !.geoJsonOutput = "", !.geoJsonPreview = None]
    ELSE [a EXCEPT !.isLoading = TRUE, !.error = None,
                   !.status = Some(StatusConverting)]

startedRuns(rs, input) ==
    Append(rs, [input |-> input,
                state |-> IF IsBlankInput(input) THEN "blank" ELSE "awaiting"])

\* the finally block of runConversion
finally(a) == [a EXCEPT !.isLoading = FALSE]

InitApp ==
    /\ app = Some([svgInput |-> "", autoConvert |-> TRUE, isLoading |-> FALSE,
                   error |-> None, status |-> None, geoJsonOutput |-> "",
                   geoJsonPreview |-> None, metadataMessage |-> None])
    /\ runs = <<>>
    /\ timer = Some("")
    /\ ForwardIdle
    /\ BBoxIdle
    /\ ReverseIdle

AppRest == <<convertVars, inferVars, heightVars, bboxVars, reverseVars>>

\* handleInputChange; the effect replaces the pending timeout
EditInput ==
    /\ app # None
    /\ \E value \in SvgInputs :
          /\ value # Get(app).svgInput
          /\ app' = Some([Get(app) EXCEPT !.svgInput = value])
          /\ timer' = IF Get(app).autoConvert THEN Some(value) ELSE None
    /\ UNCHANGED <<runs, AppRest>>

\* the timeout of the auto-convert effect calls runConversion
TimerFires ==
    /\ app # None
    /\ timer # None
    /\ Len(runs) < MaxRuns
    /\ app' = Some(startedApp(Get(app), Get(timer)))
    /\ runs' = startedRuns(runs, Get(timer))
    /\ timer' = None
    /\ UNCHANGED AppRest

\* handleAutoToggle
ToggleAuto ==
    /\ app # None
    /\ \/ /\ Get(app).autoConvert
          /\ app' = Some([Get(app) EXCEPT !.autoConvert = FALSE])
          /\ timer' = None
          /\ UNCHANGED runs
       \/ /\ ~Get(app).autoConvert
          /\ Len(runs) < MaxRuns
          /\ app' = Some(startedApp([Get(app) EXCEPT !.autoConvert = TRUE],
                                    Get(app).svgInput))
          /\ runs' = startedRuns(runs, Get(app).svgInput)
          /\ timer' = Some(Get(app).svgInput)
    /\ UNCHANGED AppRest

\* handleConvertClick; the button is disabled while isLoading
ConvertClick ==
    /\ app # None
    /\ ~Get(app).isLoading
    /\ Len(runs) < MaxRuns
    /\ app' = Some(startedApp(Get(app), Get(app).svgInput))
    /\ runs' = startedRuns(runs, Get(app).svgInput)
    /\ UNCHANGED <<timer, AppRest>>

\* the awaited convertSvgToGeoJson of some call resolves
ConversionResolves ==
    /\ app # None
    /\ \E k \in 1..Len(runs) :
          /\ runs[k].state = "awaiting"
          /\ ~Rejected(runs[k].input)
          /\ app' = Some(finally(
                        [Get(app) EXCEPT
                            !.geoJsonOutput = OutputOf(runs[k].input),
                            !.geoJsonPreview = PreviewOf(runs[k].input),
                            !.metadataMessage = MetaOf(runs[k].input),
                            !.status = Some(StatusGenerated)]))
          /\ runs' = [runs EXCEPT ![k].state = "resolved"]
    /\ UNCHANGED <<timer, AppRest>>

\* the awaited convertSvgToGeoJson of some call rejects
ConversionRejects ==
    /\ app # None
    /\ \E k \in 1..Len(runs) :
          /\ runs[k].state = "awaiting"
          /\ Rejected(runs[k].input)
          /\ app' = Some(finally(
                        [Get(app) EXCEPT !.error = Some(ErrNoSvg),
                                         !.status = None]))
          /\ runs' = [runs EXCEPT ![k].state = "rejected"]
    /\ UNCHANGED <<timer, AppRest>>

NextApp ==
    \/ EditInput
    \/ TimerFires
    \/ ToggleAuto
    \/ ConvertClick
    \/ ConversionResolves
    \/ ConversionRejects

SpecApp == InitApp /\ [][NextApp]_vars

-----------------------------------------------------------------------------
\* Properties of inferGeometry (checked under SpecInfer).

InferDone == inferArgs # None /\ feature # None
Args == Get(inferArgs)
Out == Get(feature)
IsPolygon(f) == f.geometry.type = "Polygon"
\* the coordinate list of a feature: the single ring of a Polygon, or the line
OutCoords(f) ==
    IF IsPolygon(f) THEN f.geometry.coordinates[1] ELSE f.geometry.coordinates

\* the last character of d that is not whitespace is z or Z
EndsInCloseCommand(d) ==
    /\ d # None
    /\ LET s == Get(d)
           nonSpace == {i \in 1..Len(s) : s[i] # " "}
       IN /\ nonSpace # {}
          /\ s[CHOOSE i \in nonSpace : \A j \in nonSpace : j <= i] \in {"z", "Z"}

DeclaresFill(fill) == fill # None /\ fill # Some("") /\ fill # Some("none")

\* C1: inferGeometry returns a Polygon exactly when d ends in z/Z (optionally
\* followed by whitespace) or fill is present, non-empty and not "none";
\* otherwise it returns a LineString. A closing command gives a Polygon
\* whatever the fill.
C1_GeometryType ==
    InferDone =>
        /\ Out.geometry.type \in {"Polygon", "LineString"}
        /\ IsPolygon(Out) <=>
              (EndsInCloseCommand(Args.el.d) \/ DeclaresFill(Args.el.fill))
        /\ EndsInCloseCommand(Args.el.d) => IsPolygon(Out)

C1_Witness ==
    /\ InferDone
    /\ Args.el.d = Some(<<"Z", " ">>)
    /\ Args.el.fill = Some("none")
    /\ IsPolygon(Out)

\* C2: a Polygon has exactly one ring, whose first and last coordinates are
\* equal; the ring is the n transformed (flipped and rounded) points in order,
\* followed by one copy of the first iff the transformed first and last
\* differ. A LineString has exactly the n transformed points, nothing appended.
C2_RingClosure ==
    InferDone =>
        LET n == Len(Args.coords)
            t == roundedCoords(Args.coords, Args.flipY, Args.svgHeight,
                               Args.precision)
            c == OutCoords(Out)
        IN IF IsPolygon(Out)
           THEN /\ Len(Out.geometry.coordinates) = 1
                /\ c[1] = c[Len(c)]
                /\ Len(c) \in {n, n + 1}
                /\ \A i \in 1..n : c[i] = t[i]
                /\ Len(c) = n + 1 <=> t[1] # t[n]
                /\ Len(c) = n + 1 => c[n + 1] = t[1]
           ELSE /\ Len(c) = n
                /\ \A i \in 1..n : c[i] = t[i]

C2_Witness ==
    /\ InferDone
    /\ IsPolygon(Out)
    /\ Len(Args.coords) = 2
    /\ Len(OutCoords(Out)) = 3

\* C5: before rounding, with flipY and a known reference height H every point
\* has y = H - y_sampled; with flipY false, or with no reference height, y is
\* the sampled y and a feature is still produced. x is always the sampled x.
C5_Flip ==
    InferDone =>
        /\ transformedCoords # None
        /\ LET t == Get(transformedCoords)
           IN /\ Len(t) = Len(Args.coords)
              /\ \A i \in 1..Len(t) :
                    /\ t[i][1] = Args.coords[i][1]
                    /\ t[i][2] = IF Args.flipY /\ Args.svgHeight # None
                                 THEN Get(Args.svgHeight) - Args.coords[i][2]
                                 ELSE Args.coords[i][2]

C5_Witness ==
    /\ InferDone
    /\ Args.flipY
    /\ Args.svgHeight = Some(4 * Unit)
    /\ Args.precision = Some(0)
    /\ Args.coords = <<<<50, -250>>, <<0, 30>>>>
    /\ Get(transformedCoords) = <<<<50, 4 * Unit + 250>>, <<0, 4 * Unit - 30>>>>

\* o is v rounded to the multiple of m nearest to it, a tie going up
NearestTieUp(o, v, m) ==
    /\ o % m = 0
    /\ 2 * o - m <= 2 * v
    /\ 2 * v < 2 * o + m

\* o is v rounded to `precision` decimals, a tie going up (Math.round)
IsMathRound(o, v, precision) ==
    IF precision >= FracDigits THEN o = v
    ELSE NearestTieUp(o, v, 10 ^ (FracDigits - precision))

\* v rounded to `precision` decimals, a tie going away from zero
roundHalfAwayFromZero(v, precision) ==
    IF precision >= FracDigits THEN v
    ELSE LET m == 10 ^ (FracDigits - precision)
             a == IF v < 0 THEN -v ELSE v
             r == ((2 * a + m) \div (2 * m)) * m
         IN IF v < 0 THEN -r ELSE r

\* C7 as stated: with a precision P every output coordinate is the flipped
\* value rounded to P decimals, half away from zero; without one the
\* coordinates pass through unrounded.
C7_HalfAwayFromZero ==
    InferDone =>
        LET t == Get(transformedCoords)
            c == OutCoords(Out)
        IN \A i \in 1..Len(t) : \A k \in 1..2 :
              c[i][k] = IF Args.precision = None THEN t[i][k]
                        ELSE roundHalfAwayFromZero(t[i][k], Get(Args.precision))

\* C7 amended: with a precision P every output coordinate is
\* Math.round(v * 10^P) / 10^P of the flipped value v, which rounds a tie
\* toward positive infinity (-2.5 becomes -2); rounding follows the flip;
\* without a precision the coordinates pass through unrounded.
C7_RoundAfterFlip ==
    InferDone =>
        LET t == Get(transformedCoords)
            c == OutCoords(Out)
        IN \A i \in 1..Len(t) : \A k \in 1..2 :
              IF Args.precision = None THEN c[i][k] = t[i][k]
              ELSE IsMathRound(c[i][k], t[i][k], Get(Args.precision))

C7_Witness ==
    /\ InferDone
    /\ Args.precision = Some(0)
    /\ ~Args.flipY
    /\ Args.coords[1] = <<50, -250>>
    /\ FracDigits = 2 => OutCoords(Out)[1] = <<100, -200>>

\* the first candidate name attribute that is present (possibly empty)
FirstNameAttr(el) ==
    IF el.inkscapeLabel # None THEN el.inkscapeLabel ELSE el.dataName

HasKey(f, k) == k \in DOMAIN f.properties

\* C8: properties holds id, fill, stroke, strokeWidth exactly when the
\* attribute is present and non-empty, with its value; name is taken from the
\* first of inkscape:label, data-name that is present (and is there only if
\* that value is non-empty); no key holds an empty value.
C8_Properties ==
    InferDone =>
        LET el == Args.el
            p == Out.properties
        IN /\ DOMAIN p \subseteq {"id", "name", "fill", "stroke", "strokeWidth"}
           /\ HasKey(Out, "id") <=> (el.id # None /\ el.id # Some(""))
           /\ HasKey(Out, "fill") <=> (el.fill # None /\ el.fill # Some(""))
           /\ HasKey(Out, "stroke") <=> (el.stroke # None /\ el.stroke # Some(""))
           /\ HasKey(Out, "strokeWidth") <=>
                 (el.strokeWidth # None /\ el.strokeWidth # Some(""))
           /\ HasKey(Out, "id") => Some(p["id"]) = el.id
           /\ HasKey(Out, "fill") => Some(p["fill"]) = el.fill
           /\ HasKey(Out, "stroke") => Some(p["stroke"]) = el.stroke
           /\ HasKey(Out, "strokeWidth") => Some(p["strokeWidth"]) = el.strokeWidth
           /\ HasKey(Out, "name") <=>
                 (FirstNameAttr(el) # None /\ FirstNameAttr(el) # Some(""))
           /\ HasKey(Out, "name") => Some(p["name"]) = FirstNameAttr(el)
           /\ \A k \in DOMAIN p : p[k] # ""

C8_Witness ==
    /\ InferDone
    /\ Args.el.inkscapeLabel = Some("Lake")
    /\ Args.el.dataName = Some("Pond")
    /\ Args.el.id = Some("")
    /\ Args.el.stroke = None
    /\ Args.el.strokeWidth = Some("2")
    /\ DOMAIN Out.properties = {"name", "strokeWidth"}
    /\ Out.properties["name"] = "Lake"

\* the feature inferGeometry gives for the same call with one fill value
WithFill(fill) ==
    inferGeometry(Args.coords, [Args.el EXCEPT !.fill = fill], Args.flipY,
                  Args.svgHeight, Args.precision)

\* C9 as stated: a path with fill="none" yields the same feature (geometry
\* and properties, no fill key) as the same path with no fill attribute.
C9_NoneIsAbsent ==
    (InferDone /\ Args.el.fill = Some("none")) =>
        /\ Out.geometry.type = WithFill(None).geometry.type
        /\ Out.geometry.coordinates = WithFill(None).geometry.coordinates
        /\ Out.properties = WithFill(None).properties
        /\ ~HasKey(Out, "fill")

\* C9 amended: fill="none" is treated as absent when the geometry type is
\* decided, so the geometry is that of the same path with no fill attribute;
\* the properties are those of the path with no fill plus fill: "none".
C9_NoneIsAbsentForGeometry ==
    (InferDone /\ Args.el.fill = Some("none")) =>
        /\ Out.geometry.type = WithFill(None).geometry.type
        /\ Out.geometry.coordinates = WithFill(None).geometry.coordinates
        /\ Out.properties = WithFill(None).properties @@ ("fill" :> "none")
        /\ ~HasKey(WithFill(None), "fill")

C9_Witness ==
    /\ InferDone
    /\ Args.el.fill = Some("none")
    /\ Args.el.d = None
    /\ Out.geometry.type = "LineString"
    /\ Out.properties["fill"] = "none"

-----------------------------------------------------------------------------
\* Properties of the reference height (checked under SpecHeight).

HeightDone == rootEl # None /\ rootHeight # None
Root == Get(rootEl)
\* the whitespace-separated components of the viewBox attribute
Components(v) == IF v = None THEN <<>> ELSE SplitSpaces(Trim(Get(v)))
\* the explicit height attribute is present and numeric
HasNumericHeight(r) == r.height # None /\ parseFloat(Get(r.height)) # None

\* C6 as stated: the explicit height when present and numeric; otherwise, with
\* a viewBox of exactly 4 components, the 3rd component; otherwise none.
C6_ThirdComponent ==
    HeightDone =>
        Get(rootHeight) =
            IF HasNumericHeight(Root) THEN parseFloat(Get(Root.height))
            ELSE IF Len(Components(Root.viewBox)) = 4
                 THEN parseFloat(Components(Root.viewBox)[3])
                 ELSE None

\* C6 amended: the explicit height when present and numeric; otherwise, with a
\* viewBox of exactly 4 whitespace-separated components, the 4th (last)
\* component when it is numeric; otherwise no reference height. An explicit
\* numeric height takes precedence over the viewBox.
C6_ReferenceHeight ==
    HeightDone =>
        Get(rootHeight) =
            IF HasNumericHeight(Root) THEN parseFloat(Get(Root.height))
            ELSE IF Len(Components(Root.viewBox)) = 4
                 THEN parseFloat(Components(Root.viewBox)[4])
                 ELSE None

C6_Witness ==
    /\ HeightDone
    /\ Root.height = Some(<<"x">>)
    /\ Root.viewBox = Some(<<" ", "3", " ", " ", "3", " ", " ", "3", " ", " ", "7", " ">>)
    /\ Get(rootHeight) = Some(7 * Unit)

-----------------------------------------------------------------------------
\* Properties of convertSvgToGeoJson (checked under Spec).

\* the text is handed to element discovery (or was)
Handed == sanitized # None
InputErrors == {ErrEmpty, ErrNoSvg, ErrNoPath}
IsBlankText == \A i \in 1..Len(svgText) : svgText[i] = "ws"
NoSvgIn(text) == \A i \in 1..Len(text) : text[i] # "svg"
IsPathElement(tok) == tok \in {"pathA", "pathB"}
NoPathIn(text) == \A i \in 1..Len(text) : ~IsPathElement(text[i])

\* C3: the text handed to element discovery is (1) the sanitized raw text if
\* the first attempt succeeds; (2) after a failure, if stripping changes the
\* text, the result of one retry on the stripped text if that succeeds;
\* (3) the stripped text, unsanitized, if the retry fails; (4) the raw text,
\* with no retry, if stripping changes nothing. A sanitizer failure never
\* aborts the conversion and the sanitizer is invoked at most twice.
C3_SanitizeFallback ==
    /\ Len(calls) <= 2
    /\ error # None => Get(error) \in InputErrors
    /\ (pc = "failed" /\ error # Some(ErrEmpty)) => Handed
    /\ \A k \in 1..Len(calls) : calls[k].state = "pending" <=>
          (k = Len(calls) /\ pc \in {"await1", "await2"})
    /\ Handed =>
          LET stripped == stripUnsupported(svgText)
          IN /\ Len(calls) >= 1
             /\ calls[1].arg = svgText
             /\ calls[1].state = "resolved" =>
                   (Len(calls) = 1 /\ sanitized = Some(calls[1].out))
             /\ (calls[1].state = "rejected" /\ stripped # svgText) =>
                   /\ Len(calls) = 2
                   /\ calls[2].arg = stripped
                   /\ calls[2].state = "resolved" => sanitized = Some(calls[2].out)
                   /\ calls[2].state = "rejected" => sanitized = Some(stripped)
             /\ (calls[1].state = "rejected" /\ stripped = svgText) =>
                   (Len(calls) = 1 /\ sanitized = Some(svgText))

C3_Witness ==
    /\ pc = "done"
    /\ svgText = <<"clipPathOpen", "pathA", "clipPathClose">>
    /\ Len(calls) = 2
    /\ calls[1].state = "rejected"
    /\ calls[2].arg = <<>>
    /\ calls[2].state = "resolved"
    /\ sanitized = Some(<<"svg", "pathB", "pathA">>)

\* C4: the call fails with an Input Error, and no result, in three cases: the
\* text is empty or whitespace-only; the text handed to discovery holds no
\* <svg> element; it holds one but no <path> element. The three errors are
\* distinct, and a failed call yields no partial feature set.
C4_InputErrors ==
    /\ Cardinality(InputErrors) = 3
    /\ (pc # "start" /\ IsBlankText) => (pc = "failed" /\ error = Some(ErrEmpty))
    /\ (pc \in {"sample", "done", "failed"} /\ Handed /\ NoSvgIn(Get(sanitized)))
          => (pc = "failed" /\ error = Some(ErrNoSvg))
    /\ (pc \in {"sample", "done", "failed"} /\ Handed /\ ~NoSvgIn(Get(sanitized))
           /\ NoPathIn(Get(sanitized)))
          => (pc = "failed" /\ error = Some(ErrNoPath))
    /\ pc = "failed" =>
          /\ error # None /\ Get(error) \in InputErrors
          /\ result = None
          /\ features = <<>>
          /\ error = Some(ErrEmpty) => IsBlankText
          /\ error = Some(ErrNoSvg) => (Handed /\ NoSvgIn(Get(sanitized)))
          /\ error = Some(ErrNoPath) =>
                (Handed /\ ~NoSvgIn(Get(sanitized)) /\ NoPathIn(Get(sanitized)))
    /\ pc # "failed" => error = None
    /\ result # None <=> pc = "done"

C4_Witness ==
    /\ pc = "failed"
    /\ error = Some(ErrNoPath)
    /\ svgText = <<"ws", "svg", "ws">>
    /\ calls[1].state = "rejected"

\* the indices of the paths whose sampled sequence is not empty, in order
RECURSIVE KeptFrom(_)
KeptFrom(i) ==
    IF i > Len(sampled) THEN <<>>
    ELSE (IF sampled[i] # <<>> THEN <<i>> ELSE <<>>) \o KeptFrom(i + 1)

\* C10: on success the feature list holds exactly one feature for each path
\* element with a non-empty sampled sequence, in document order, and none for
\* a path with an empty one; featureCount is the list's length, pathCount the
\* number of path elements (skipped ones included, so 1 <= pathCount and
\* featureCount <= pathCount), samplePoints the sample-count setting used.
C10_FeaturesAndMetadata ==
    pc = "done" =>
        LET r == Get(result)
            fs == r.collection.features
            kept == KeptFrom(1)
            docPaths == SelectSeq(Get(sanitized), IsPathElement)
        IN /\ Len(sampled) = Len(docPaths)
           /\ Len(fs) = Len(kept)
           /\ \A k \in 1..Len(kept) :
                 fs[k] = inferGeometry(sampled[kept[k]], PathEl(docPaths[kept[k]]),
                                       IF options.flipY = None THEN TRUE
                                       ELSE Get(options.flipY),
                                       svgHeight, options.precision)
           /\ r.metadata.featureCount = Len(fs)
           /\ r.metadata.pathCount = Len(docPaths)
           /\ 1 <= r.metadata.pathCount
           /\ r.metadata.featureCount <= r.metadata.pathCount
           /\ r.metadata.samplePoints =
                 IF options.samplePoints = None THEN 250
                 ELSE Get(options.samplePoints)

C10_Witness ==
    /\ pc = "done"
    /\ sanitized = Some(<<"svg", "pathB", "pathA">>)
    /\ sampled[1] = <<>>
    /\ sampled[2] # <<>>
    /\ Len(Get(result).collection.features) = 1
    /\ Get(result).collection.features[1].properties["id"] = "a"
    /\ Get(result).metadata.pathCount = 2

-----------------------------------------------------------------------------
\* Properties of computeBoundingBox (checked under SpecBBox).

BBoxDone == bboxInput # None /\ bboxOut # None
\* the value returned: {} for null, {box} otherwise
Box == Get(bboxOut)

\* the positions of a geometry, of a feature and of a feature collection that
\* hold an x and a y
RECURSIVE PositionsOf(_)
PositionsOf(g) ==
    LET pts ==
        CASE g.type = "Point" -> {g.coordinates}
          [] g.type \in {"MultiPoint", "LineString"} ->
                {g.coordinates[i] : i \in 1..Len(g.coordinates)}
          [] g.type \in {"MultiLineString", "Polygon"} ->
                UNION {{g.coordinates[i][j] : j \in 1..Len(g.coordinates[i])} :
                          i \in 1..Len(g.coordinates)}
          [] g.type = "MultiPolygon" ->
                UNION {UNION {{g.coordinates[i][j][k] :
                                  k \in 1..Len(g.coordinates[i][j])} :
                                 j \in 1..Len(g.coordinates[i])} :
                          i \in 1..Len(g.coordinates)}
          [] g.type = "GeometryCollection" ->
                UNION {PositionsOf(g.geometries[i]) : i \in 1..Len(g.geometries)}
          [] g.type = "Feature" ->
                IF g.geometry = None THEN {} ELSE PositionsOf(Get(g.geometry))
          [] g.type = "FeatureCollection" ->
                UNION {PositionsOf(g.features[i]) : i \in 1..Len(g.features)}
          [] OTHER -> {}
    IN {p \in pts : Len(p) >= 2}

\* C11: computeBoundingBox returns null exactly when the input holds no
\* coordinate anywhere (empty feature set, missing geometry, empty geometries,
\* empty collections); otherwise minX/maxX and minY/maxY are the least and
\* greatest x and y over every position of every geometry, at any nesting.
C11_BoundingBox ==
    BBoxDone =>
        LET ps == PositionsOf(Get(bboxInput))
        IN /\ Box = None <=> ps = {}
           /\ ps # {} =>
                 /\ \E p \in ps : Get(Box).minX = Some(p[1])
                 /\ \E p \in ps : Get(Box).maxX = Some(p[1])
                 /\ \E p \in ps : Get(Box).minY = Some(p[2])
                 /\ \E p \in ps : Get(Box).maxY = Some(p[2])
                 /\ \A p \in ps :
                       /\ Get(Get(Box).minX) <= p[1] /\ p[1] <= Get(Get(Box).maxX)
                       /\ Get(Get(Box).minY) <= p[2] /\ p[2] <= Get(Get(Box).maxY)

-----------------------------------------------------------------------------
\* Properties of convertGeoJsonToSvg (checked under SpecReverse).

\* the tokens of the text that are not whitespace
NonBlank == SelectSeq(geojsonText, LAMBDA t : t # "ws")
\* the text is the JSON text of one value
IsJsonText == Len(NonBlank) = 1 /\ NonBlank[1] \in DocTokens

\* C12: convertGeoJsonToSvg fails with an Input Error when the text is empty
\* or whitespace-only and when it is not valid JSON; in both cases before the
\* renderer is constructed or invoked, and nothing is returned.
C12_RejectsBeforeRendering ==
    revPc # "start" =>
        /\ NonBlank = <<>> => (revPc = "failed" /\ revError = Some(ErrGeoEmpty))
        /\ (NonBlank # <<>> /\ ~IsJsonText) =>
              (revPc = "failed" /\ revError = Some(ErrGeoInvalid))
        /\ ~IsJsonText => (renderer = None /\ revResult = None)
        /\ (revError = Some(ErrGeoEmpty) \/ revError = Some(ErrGeoInvalid)) =>
              (~IsJsonText /\ renderer = None /\ revResult = None)
        /\ ErrGeoEmpty # ErrGeoInvalid

C12_Witness ==
    /\ revPc = "failed"
    /\ geojsonText = <<"pointFeature", "junk">>
    /\ revError = Some(ErrGeoInvalid)
    /\ renderer = None

\* the first n fragments of fs, one after the other
RECURSIVE Upto(_, _)
Upto(fs, n) == IF n = 0 THEN "" ELSE Upto(fs, n - 1) \o fs[n]

\* the markup expected around the fragments fs for a viewBox text
Wrapped(w, h, viewBox, fs) ==
    "<svg xmlns=\"http://www.w3.org/2000/svg\" width=\"" \o ToString(w)
    \o "\" height=\"" \o ToString(h) \o "\" viewBox=\"" \o viewBox \o "\">"
    \o Upto(fs, Len(fs)) \o "</svg>"

\* C13: the markup is one root container with width and height equal to the
\* viewport, with viewBox 'left bottom (right-left) (top-bottom)' when an
\* explicit mapExtent is given and '0 0 width height' when none is (also when
\* the extent is derived from the data), holding all the renderer's fragments
\* in the renderer's order with nothing between them; when the renderer
\* returns no fragment, as for an empty feature set, the container is empty.
C13_Wrapper ==
    revPc = "done" =>
        LET o == Get(revOptions)
            fs == Get(renderer).fragments
            viewBox ==
                IF o.mapExtent = None
                THEN "0 0 " \o ToString(o.viewportWidth) \o " "
                     \o ToString(o.viewportHeight)
                ELSE LET e == Get(o.mapExtent)
                     IN ToString(e.left) \o " " \o ToString(e.bottom) \o " "
                        \o ToString(e.right - e.left) \o " "
                        \o ToString(e.top - e.bottom)
        IN /\ Get(revResult).svg = Wrapped(o.viewportWidth, o.viewportHeight,
                                           viewBox, fs)
           /\ fs = <<>> =>
                 Get(revResult).svg =
                    "<svg xmlns=\"http://www.w3.org/2000/svg\" width=\""
                    \o ToString(o.viewportWidth) \o "\" height=\""
                    \o ToString(o.viewportHeight) \o "\" viewBox=\"" \o viewBox
                    \o "\"></svg>"

C13_Witness ==
    /\ revPc = "done"
    /\ Get(revOptions).mapExtentFromGeojson = Some(TRUE)
    /\ Get(revResult).svg =
          "<svg xmlns=\"http://www.w3.org/2000/svg\" width=\"100\" height=\"50\" viewBox=\"10 5 20 40\">"
          \o "<circle cx=\"3\" cy=\"4\" r=\"2\"/>" \o "<path d=\"M2,2 6,-3\"/>"
          \o "</svg>"

\* the bounding box of each document, whatever the configuration
BoxOfText ==
    CASE NonBlank = <<"emptyFC">> -> None
      [] NonBlank = <<"pointFeature">> ->
            Some([minX |-> Some(3), minY |-> Some(4),
                  maxX |-> Some(3), maxY |-> Some(4)])
      [] NonBlank = <<"twoLines">> ->
            Some([minX |-> Some(-4), minY |-> Some(-3),
                  maxX |-> Some(6), maxY |-> Some(9)])

\* C14: metadata.elementCount is the number of fragments the renderer
\* produced, and metadata.bbox depends only on the parsed input: it is
\* computeBoundingBox of it whatever the configuration (explicit mapExtent or
\* none, mapExtentFromGeojson on or off, viewport, precision, fitTo, radius).
C14_Metadata ==
    revPc = "done" =>
        /\ Get(revResult).metadata.elementCount = Len(Get(renderer).fragments)
        /\ Get(revResult).metadata.bbox = BoxOfText
        /\ Get(revResult).metadata.bbox = computeBoundingBox(Get(renderer).input)

C14_Witness ==
    /\ revPc = "done"
    /\ NonBlank = <<"twoLines">>
    /\ Get(revOptions).mapExtent # None
    /\ Get(revOptions).mapExtentFromGeojson = Some(FALSE)
    /\ Get(revResult).metadata.elementCount = 2
    /\ Get(Get(revResult).metadata.bbox).maxY = Some(9)

-----------------------------------------------------------------------------
\* Properties of App (checked under SpecApp).

\* some call of runConversion is still awaiting the converter
InFlight == \E k \in 1..Len(runs) : runs[k].state = "awaiting"

\* what the call started last displays once it is over
ShowsLast ==
    LET a == Get(app)
        last == runs[Len(runs)]
    IN CASE last.state = "resolved" ->
                /\ a.geoJsonOutput = OutputOf(last.input)
                /\ a.geoJsonPreview = PreviewOf(last.input)
                /\ a.metadataMessage = MetaOf(last.input)
                /\ a.status = Some(StatusGenerated)
                /\ a.error = None
         [] last.state = "rejected" ->
                /\ a.error = Some(ErrNoSvg)
                /\ a.status = None
         [] last.state = "blank" ->
                /\ a.geoJsonOutput = ""
                /\ a.geoJsonPreview = None
                /\ a.status = None
                /\ a.error = None
         [] OTHER -> TRUE

\* C15: when forward conversions overlap, the loading flag stays set while a
\* conversion is in flight, and once none is in flight the output, preview,
\* metadata, status and error displayed are those of the conversion that was
\* started last.
C15_LastStartedWins ==
    app # None =>
        /\ InFlight => Get(app).isLoading
        /\ (runs # <<>> /\ ~InFlight) => ShowsLast

====
